---- MODULE Spec2Model ----
\* Linearization and block accumulation layer of gtsam:
\*   RegularJacobianFactor<D>   hessianDiagonal(d), multiplyHessianAdd(alpha, x, y [, keys])
\*   GeneralSFMFactor           evaluateError, linearize, BinaryJacobianFactor::updateHessian
\*   GeneralSFMFactor2          evaluateError
\*   Assignment                 CartesianProduct
\* Numbers are integers: a Diagonal noise model is kept by its reciprocal
\* standard deviations, so that whitening is an exact multiplication.
EXTENDS Integers, Sequences, FiniteSets, TLC

\* ------------------------------------------------------------------------
\* Dimensions and bounds
\* ------------------------------------------------------------------------

\* template<size_t D>: the fixed block width (DimC = DimL = D here)
D == 2

\* rows of every Jacobian block: the residual is a Vector2
ResidualDim == 2

\* number of variables (keys 0 .. NumKeys-1) of one optimization instance
NumKeys == 2

\* number of linear factors in the graph
NumFactors == 2

Keys == 0 .. (NumKeys - 1)

\* ------------------------------------------------------------------------
\* Dense matrices: a matrix is a tuple of rows, a vector is an n x 1 matrix
\* ------------------------------------------------------------------------

RECURSIVE SumTo(_, _)
SumTo(f, n) == IF n = 0 THEN 0 ELSE f[n] + SumTo(f, n - 1)

\* a matrix or buffer held by its entries (Eigen's eval()), not as an expression
Dense(f) == f @@ <<>>

Rows(M) == Len(M)

Cols(M) == Len(M[1])

Zeros(r, c) == Dense([i \in 1..r |-> Dense([j \in 1..c |-> 0])])

Transpose(M) ==
  Dense([j \in 1..Cols(M) |-> Dense([i \in 1..Rows(M) |-> M[i][j]])])

MatMul(A, B) ==
  Dense([i \in 1..Rows(A) |-> Dense([j \in 1..Cols(B) |->
      SumTo([k \in 1..Cols(A) |-> A[i][k] * B[k][j]], Cols(A))])])

MatAdd(A, B) ==
  Dense([i \in 1..Rows(A) |-> Dense([j \in 1..Cols(A) |-> A[i][j] + B[i][j]])])

Scale(a, M) ==
  Dense([i \in 1..Rows(M) |-> Dense([j \in 1..Cols(M) |-> a * M[i][j]])])

Negate(M) == Scale(-1, M)

\* Ab_(j).col(k).squaredNorm()
ColSquaredNorm(M, k) == SumTo([i \in 1..Rows(M) |-> M[i][k] * M[i][k]], Rows(M))

\* Eigen::SelfAdjointView<Upper>: the matrix a diagonal block stands for
SelfAdjointView(M) ==
  Dense([i \in 1..Rows(M) |-> Dense([j \in 1..Cols(M) |->
      IF i <= j THEN M[i][j] ELSE M[j][i]])])

\* selfadjointView().rankUpdate(A'): M += A' * A, written to the upper triangle only
RankUpdate(M, A) ==
  LET AtA == MatMul(Transpose(A), A)
  IN Dense([i \in 1..Rows(M) |-> Dense([j \in 1..Cols(M) |->
        IF i <= j THEN M[i][j] + AtA[i][j] ELSE M[i][j]])])

\* ------------------------------------------------------------------------
\* Noise models (gtsam/linear/NoiseModel.h is outside the sources: SharedDiagonal
\* by its contract): kind, reciprocal sigmas, and the constrained rows
\* ------------------------------------------------------------------------

\* a null SharedDiagonal / SharedNoiseModel
NoModel == [kind |-> "none", invsigmas |-> <<1, 1>>, hard |-> {}]

UnitModel == [kind |-> "unit", invsigmas |-> <<1, 1>>, hard |-> {}]

DiagonalModel(w) == [kind |-> "diagonal", invsigmas |-> w, hard |-> {}]

ConstrainedModel(w, h) == [kind |-> "constrained", invsigmas |-> w, hard |-> h]

\* if (model): the shared pointer is set
HasModel(m) == m.kind # "none"

isUnit(m) == m.kind = "unit"

isConstrained(m) == m.kind = "constrained"

\* Constrained::unit(): strips the scale, keeps the equality-constraint structure
unit(m) == ConstrainedModel(<<1, 1>>, m.hard)

\* the factor row i is multiplied by: 1/sigma_i, and 1 on a constrained (sigma = 0) row
RowScale(m, i) == IF i \in m.hard \/ ~HasModel(m) \/ isUnit(m) THEN 1 ELSE m.invsigmas[i]

\* Whiten(H), whiten(v), whitenInPlace(v): scale every row
Whiten(m, M) ==
  Dense([i \in 1..Rows(M) |-> Dense([j \in 1..Cols(M) |-> RowScale(m, i) * M[i][j]])])

\* ------------------------------------------------------------------------
\* Measurement factors: GeneralSFMFactor (binary), GeneralSFMFactor2 (ternary)
\* ------------------------------------------------------------------------

\* FixedDimension<CAMERA>::value and FixedDimension<LANDMARK>::value
DimC == 2

DimL == 2

\* widths of the ternary factor's blocks: Pose3, Point3, FixedDimension<CALIBRATION>
DimPose == 6

DimPoint == 3

DimK == 3

\* zero(2)
Zero2 == Zeros(ResidualDim, 1)

\* an optional Jacobian that was not requested (boost::none)
None == <<>>

\* evaluateError of the binary factor. p is what camera.project2 does at the
\* values: p.cheirality (it throws CheiralityException), else the predicted p.z
\* and the partials p.H1, p.H2.
evaluateError(mf, p, wantH1, wantH2) ==
  IF ~p.cheirality
  THEN [error |-> MatAdd(p.z, Negate(mf.measured)),
        H1 |-> IF wantH1 THEN p.H1 ELSE None,
        H2 |-> IF wantH2 THEN p.H2 ELSE None,
        threw |-> FALSE, diagnostic |-> FALSE]
  ELSE [error |-> Zero2,
        H1 |-> IF wantH1 THEN Zeros(ResidualDim, DimC) ELSE None,
        H2 |-> IF wantH2 THEN Zeros(ResidualDim, DimL) ELSE None,
        threw |-> FALSE, diagnostic |-> FALSE]

\* evaluateError of the ternary factor; p is what Camera(pose3, calib).project does
evaluateError2(mf, p, wantH1, wantH2, wantH3) ==
  IF ~p.cheirality
  THEN [error |-> MatAdd(p.z, Negate(mf.measured)),
        H1 |-> IF wantH1 THEN p.H1 ELSE None,
        H2 |-> IF wantH2 THEN p.H2 ELSE None,
        H3 |-> IF wantH3 THEN p.H3 ELSE None,
        threw |-> FALSE, diagnostic |-> FALSE]
  ELSE [error |-> Zero2,
        H1 |-> IF wantH1 THEN Zeros(ResidualDim, DimPose) ELSE None,
        H2 |-> IF wantH2 THEN Zeros(ResidualDim, DimPoint) ELSE None,
        H3 |-> IF wantH3 THEN Zeros(ResidualDim, DimK) ELSE None,
        threw |-> FALSE, diagnostic |-> TRUE]

\* BinaryJacobianFactor(key1, A1, key2, A2, b, model): a JacobianFactor
BinaryJacobianFactor(key1, A1, key2, A2, b, model) ==
  [keys |-> <<key1, key2>>, A |-> <<A1, A2>>, b |-> b, model |-> model]

\* a null boost::shared_ptr<BinaryJacobianFactor>
NullFactor == [keys |-> <<>>, A |-> <<>>, b |-> <<>>, model |-> NoModel]

\* linearize handing the factor's own noise model on, whatever its kind
linearize_keepsModel(mf, p, active) ==
  IF ~active
  THEN [factor |-> NullFactor, threw |-> FALSE, diagnostic |-> FALSE]
  ELSE
    LET H1 == IF p.cheirality THEN Zeros(ResidualDim, DimC) ELSE p.H1
        H2 == IF p.cheirality THEN Zeros(ResidualDim, DimL) ELSE p.H2
        b  == IF p.cheirality THEN Zero2
              ELSE Negate(MatAdd(p.z, Negate(mf.measured)))
        nm == mf.noiseModel
    IN [factor |-> BinaryJacobianFactor(mf.key1, Whiten(nm, H1), mf.key2,
                                        Whiten(nm, H2), Whiten(nm, b), nm),
        threw |-> FALSE, diagnostic |-> FALSE]

\* linearize(values): the linear factor, whether an exception left the call,
\* and whether a diagnostic was emitted
linearize(mf, p, active) ==
  IF ~active
  THEN [factor |-> NullFactor, threw |-> FALSE, diagnostic |-> FALSE]
  ELSE
    LET H1 == IF p.cheirality THEN Zeros(ResidualDim, DimC) ELSE p.H1
        H2 == IF p.cheirality THEN Zeros(ResidualDim, DimL) ELSE p.H2
        b  == IF p.cheirality THEN Zero2
              ELSE Negate(MatAdd(p.z, Negate(mf.measured)))
        noiseModel == mf.noiseModel
        whitenIt == HasModel(noiseModel) /\ ~isUnit(noiseModel)
        wH1 == IF whitenIt THEN Whiten(noiseModel, H1) ELSE H1
        wH2 == IF whitenIt THEN Whiten(noiseModel, H2) ELSE H2
        wb  == IF whitenIt THEN Whiten(noiseModel, b) ELSE b
    IN [factor |->
          IF HasModel(noiseModel) /\ isConstrained(noiseModel)
          THEN BinaryJacobianFactor(mf.key1, wH1, mf.key2, wH2, wb, unit(noiseModel))
          ELSE BinaryJacobianFactor(mf.key1, wH1, mf.key2, wH2, wb, NoModel),
        threw |-> FALSE, diagnostic |-> FALSE]

\* ------------------------------------------------------------------------
\* The block information accumulator (SymmetricBlockMatrix) and updateHessian
\* ------------------------------------------------------------------------

\* info->nBlocks(): one block per variable and the trailing bias block
nBlocks(info) == Cardinality(DOMAIN info)

\* width of block slot s of an accumulator with n blocks
BlockDim(s, n) == IF s = n - 1 THEN 1 ELSE D

\* a zero-initialised accumulator over n blocks
ZeroInfo(n) ==
  [I \in 0..(n - 1) |-> [J \in 0..(n - 1) |-> Zeros(BlockDim(I, n), BlockDim(J, n))]]

\* Slot(infoKeys, key): the position of key in infoKeys
Slot(infoKeys, key) == (CHOOSE s \in 1..Len(infoKeys) : infoKeys[s] = key) - 1

\* (*info)(I, J).knownOffDiagonal() += M, at the block address given
AddOffDiagonal(info, I, J, M) == [info EXCEPT ![I][J] = MatAdd(@, M)]

\* (*info)(I, I).selfadjointView().rankUpdate(A')
AddRankUpdate(info, I, A) == [info EXCEPT ![I][I] = RankUpdate(@, A)]

\* JacobianFactor::whiten(): the whitened factor, which carries no model
whiten(f) ==
  [keys |-> f.keys,
   A |-> Dense([pos \in 1..Len(f.A) |-> Whiten(f.model, f.A[pos])]),
   b |-> Whiten(f.model, f.b),
   model |-> NoModel]

\* JacobianFactor::updateHessian of an already whitened binary factor: the
\* accumulation protocol (A_i' A_j to the block of (s_i, s_j) in the canonical
\* lower-slot, higher-slot order, A_i' b to (s_i, s_B), b' b added to (s_B, s_B))
JacobianFactor_updateHessian(f, infoKeys, info) ==
  LET slot1 == Slot(infoKeys, f.keys[1])
      slot2 == Slot(infoKeys, f.keys[2])
      slotB == nBlocks(info) - 1
      A1 == f.A[1]
      A2 == f.A[2]
      b  == f.b
      i1 == AddRankUpdate(info, slot1, A1)
      i2 == IF slot1 < slot2
            THEN AddOffDiagonal(i1, slot1, slot2, MatMul(Transpose(A1), A2))
            ELSE AddOffDiagonal(i1, slot2, slot1, MatMul(Transpose(A2), A1))
      i3 == AddOffDiagonal(i2, slot1, slotB, MatMul(Transpose(A1), b))
      i4 == AddRankUpdate(i3, slot2, A2)
      i5 == AddOffDiagonal(i4, slot2, slotB, MatMul(Transpose(A2), b))
      i6 == AddOffDiagonal(i5, slotB, slotB, MatMul(Transpose(b), b))
  IN [info |-> i6, err |-> "none",
      offDiag |-> {IF slot1 < slot2 THEN <<slot1, slot2>> ELSE <<slot2, slot1>>,
                   <<slot1, slotB>>, <<slot2, slotB>>}]

\* the fixed-size branch of updateHessian, for a factor with no or a unit model
updateHessianFixedSize(f, infoKeys, info) ==
  LET slot1 == Slot(infoKeys, f.keys[1])
      slot2 == Slot(infoKeys, f.keys[Len(f.keys)])
      slotB == nBlocks(info) - 1
      A1 == f.A[1]
      A2 == f.A[2]
      b  == f.b
      i1 == AddRankUpdate(info, slot1, A1)
      i2 == AddOffDiagonal(i1, slot1, slot2, MatMul(Transpose(A1), A2))
      i3 == AddOffDiagonal(i2, slot1, slotB, MatMul(Transpose(A1), b))
      i4 == AddRankUpdate(i3, slot2, A2)
      i5 == AddOffDiagonal(i4, slot2, slotB, MatMul(Transpose(A2), b))
      i6 == [i5 EXCEPT ![slotB][slotB] =
               [@ EXCEPT ![1] = [@ EXCEPT ![1] = MatMul(Transpose(b), b)[1][1]]]]
  IN [info |-> i6, err |-> "none",
      offDiag |-> {<<slot1, slot2>>, <<slot1, slotB>>, <<slot2, slotB>>}]

\* updateHessian without the isConstrained() test: a constrained factor is
\* whitened and accumulated like a diagonal one
updateHessian_unguarded(f, infoKeys, info) ==
  IF HasModel(f.model) /\ ~isUnit(f.model)
  THEN JacobianFactor_updateHessian(whiten(f), infoKeys, info)
  ELSE updateHessianFixedSize(f, infoKeys, info)

\* BinaryJacobianFactor::updateHessian(infoKeys, info): the accumulator after the
\* call, the exception it threw, and the off-diagonal block addresses it used
updateHessian(f, infoKeys, info) ==
  LET model == f.model IN
  IF HasModel(model) /\ ~isUnit(model)
  THEN
    IF isConstrained(model)
    THEN [info |-> info, err |-> "invalid_argument", offDiag |-> {}]
    ELSE JacobianFactor_updateHessian(whiten(f), infoKeys, info)
  ELSE updateHessianFixedSize(f, infoKeys, info)

\* ------------------------------------------------------------------------
\* RegularJacobianFactor<D>: raw-memory operations on caller-owned buffers
\* ------------------------------------------------------------------------

\* ConstDMap(x + off): the D entries of the buffer from off, as a column vector
ConstDMap(x, off) == Dense([k \in 1..D |-> <<x[off + k - 1]>>])

\* DMap(y + off) += v
DMapAdd(y, off, v) ==
  Dense([k \in DOMAIN y |->
           IF off <= k /\ k < off + D THEN y[k] + v[k - off + 1][1] ELSE y[k]])

\* a zero-initialised buffer of n entries
ZeroBuffer(n) == [k \in 0..(n - 1) |-> 0]

\* for (pos < size()) Ax += Ab_(pos) * ConstDMap(x + D * keys_[pos])
RECURSIVE GatherAx(_, _, _)
GatherAx(f, x, n) ==
  IF n = 0 THEN Zeros(Rows(f.b), 1)
  ELSE MatAdd(GatherAx(f, x, n - 1), MatMul(f.A[n], ConstDMap(x, D * f.keys[n])))

\* for (pos < size()) DMap(y + D * keys_[pos]) += Ab_(pos).transpose() * Ax
RECURSIVE ScatterAx(_, _, _, _)
ScatterAx(f, Ax, y, n) ==
  IF n = 0 THEN y
  ELSE DMapAdd(ScatterAx(f, Ax, y, n - 1), D * f.keys[n], MatMul(Transpose(f.A[n]), Ax))

\* if (model_) { model_->whitenInPlace(Ax); model_->whitenInPlace(Ax); }
WhitenTwice(m, Ax) == IF HasModel(m) THEN Whiten(m, Whiten(m, Ax)) ELSE Ax

\* multiplyHessianAdd(alpha, x, y): y and the exception thrown
multiplyHessianAdd(f, alpha, x, y) ==
  IF Len(f.keys) = 0 THEN [y |-> y, err |-> "none"]
  ELSE
    LET Ax == Scale(alpha, WhitenTwice(f.model, GatherAx(f, x, Len(f.keys))))
    IN [y |-> ScatterAx(f, Ax, y, Len(f.keys)), err |-> "none"]

\* the overload with an offset table: variable k lives at keys[k] .. keys[k+1]-1
RECURSIVE GatherAxKeys(_, _, _, _)
GatherAxKeys(f, x, keys, n) ==
  IF n = 0 THEN Zeros(Rows(f.b), 1)
  ELSE MatAdd(GatherAxKeys(f, x, keys, n - 1),
              MatMul(f.A[n], ConstDMap(x, keys[f.keys[n] + 1])))

RECURSIVE ScatterAxKeys(_, _, _, _, _)
ScatterAxKeys(f, Ax, y, keys, n) ==
  IF n = 0 THEN y
  ELSE DMapAdd(ScatterAxKeys(f, Ax, y, keys, n - 1), keys[f.keys[n] + 1],
               MatMul(Transpose(f.A[n]), Ax))

\* multiplyHessianAdd(alpha, x, y, keys)
multiplyHessianAddKeys(f, alpha, x, y, keys) ==
  IF Len(f.keys) = 0 THEN [y |-> y, err |-> "none"]
  ELSE
    LET Ax == Scale(alpha, WhitenTwice(f.model, GatherAxKeys(f, x, keys, Len(f.keys))))
    IN [y |-> ScatterAxKeys(f, Ax, y, keys, Len(f.keys)), err |-> "none"]

\* hessianDiagonal(d): for each position j of the factor, the squared column
\* norms of Ab_(j) are added at d + D * j
RECURSIVE hessianDiagonalLoop(_, _, _)
hessianDiagonalLoop(f, d, n) ==
  IF n = 0 THEN d
  ELSE LET j == n - 1
           dj == Dense([k \in 1..D |-> <<ColSquaredNorm(f.A[n], k)>>])
       IN DMapAdd(hessianDiagonalLoop(f, d, n - 1), D * j, dj)

hessianDiagonal(f, d) == hessianDiagonalLoop(f, d, Len(f.keys))

\* ------------------------------------------------------------------------
\* Inputs: the factors, projections, slot assignments and vectors explored
\* ------------------------------------------------------------------------

KeyPairs == {kk \in Keys \X Keys : kk[1] # kk[2]}

\* (A1, A2, b) of directly constructed linear factors
Payloads ==
  { [A1 |-> <<<<1, 0>>, <<0, 1>>>>, A2 |-> <<<<1, 2>>, <<0, 1>>>>, b |-> <<<<1>>, <<-2>>>>],
    [A1 |-> <<<<0, 1>>, <<1, 1>>>>, A2 |-> <<<<2, 0>>, <<1, 0>>>>, b |-> <<<<0>>, <<1>>>>] }

Models ==
  { NoModel, UnitModel, DiagonalModel(<<2, 3>>), ConstrainedModel(<<2, 1>>, {2}) }

\* what the projection does at the current values
CheiralityProjection ==
  [cheirality |-> TRUE, z |-> Zero2, H1 |-> Zeros(ResidualDim, DimC),
   H2 |-> Zeros(ResidualDim, DimL)]

Projections ==
  { CheiralityProjection }
  \cup { [cheirality |-> FALSE, z |-> z, H1 |-> <<<<1, 0>>, <<0, 1>>>>,
          H2 |-> <<<<1, 2>>, <<0, 1>>>>] : z \in { <<<<1>>, <<-1>>>>, <<<<2>>, <<3>>>> } }

MeasurementFactors ==
  { [key1 |-> kk[1], key2 |-> kk[2], measured |-> m, noiseModel |-> nm] :
      kk \in KeyPairs, m \in { <<<<0>>, <<0>>>>, <<<<1>>, <<1>>>> }, nm \in Models }

ConstructedFactors ==
  { BinaryJacobianFactor(kk[1], pl.A1, kk[2], pl.A2, pl.b, nm) :
      kk \in KeyPairs, pl \in Payloads, nm \in Models }

\* the linear factors of measurements whose projection hit the cheirality condition
DegenerateFactors ==
  { linearize(mf, CheiralityProjection, TRUE).factor : mf \in MeasurementFactors }

LinearFactors == ConstructedFactors \cup DegenerateFactors

\* slot assignments: every order of the keys
SlotAssignments ==
  { ks \in [1..NumKeys -> Keys] : \A a, c \in 1..NumKeys : a # c => ks[a] # ks[c] }

\* the assignment in which a variable's slot is its key
IdentitySlots == [s \in 1..NumKeys |-> s - 1]

\* input vectors of the matrix-free product
XPool == { [k \in 0..(D * NumKeys - 1) |-> 1], [k \in 0..(D * NumKeys - 1) |-> k - 1] }

Alphas == {1, 2}

\* the regular offset table of the keys overload: variable k at D*k, and the end
RegularOffsets == [k \in 1..(NumKeys + 1) |-> D * (k - 1)]

\* ------------------------------------------------------------------------
\* State
\* ------------------------------------------------------------------------

VARIABLES
  graph,       \* the linear factors of this round
  infoKeys,    \* the slot assignment
  x,           \* the input vector of the matrix-free product
  info,        \* the block information accumulator
  y,           \* the output buffer of multiplyHessianAdd
  d,           \* the output buffer of hessianDiagonal
  hessDone,    \* sequence of the factors updateHessian has been applied for
  mhaDone,     \* per factor: the multiplyHessianAdd call made, [alpha, overload]
  diagDone,    \* the factors hessianDiagonal has been called on
  last,        \* the last call: operation, factor, exception
  offDiag,     \* off-diagonal block addresses of the last updateHessian
  out,         \* the last evaluateError / linearize call and its result
  cpKeys,      \* CartesianProduct: the argument keys
  values,      \* CartesianProduct: the running assignment
  allPossValues, \* CartesianProduct: the result vector
  j,           \* CartesianProduct: the odometer position
  pc           \* CartesianProduct: the control point

hessianVars == <<graph, infoKeys, x, info, y, d, hessDone, mhaDone, diagDone, last, offDiag>>

factorVars == <<out>>

cartesianVars == <<cpKeys, values, allPossValues, j, pc>>

vars == <<hessianVars, factorVars, cartesianVars>>

NoCall == [op |-> "none", f |-> NullFactor, err |-> "none"]

\* multiplyHessianAdd has not been called for the factor
NotMultiplied == [alpha |-> 0, overload |-> "none"]

HessianIdle ==
  /\ graph = <<>>
  /\ infoKeys = IdentitySlots
  /\ x = ZeroBuffer(D * NumKeys)
  /\ info = ZeroInfo(NumKeys + 1)
  /\ y = ZeroBuffer(D * NumKeys)
  /\ d = ZeroBuffer(D * NumKeys)
  /\ hessDone = <<>>
  /\ mhaDone = <<>>
  /\ diagDone = {}
  /\ last = NoCall
  /\ offDiag = {}

FactorIdle == out = [op |-> "none"]

CartesianIdle ==
  /\ cpKeys = <<>>
  /\ values = <<>>
  /\ allPossValues = <<>>
  /\ j = 0
  /\ pc = "idle"

\* ------------------------------------------------------------------------
\* Accumulation round: a graph of linear factors, one accumulator, one y
\* ------------------------------------------------------------------------

Init ==
  /\ graph \in [1..NumFactors -> LinearFactors]
  /\ infoKeys \in SlotAssignments
  /\ x \in XPool
  /\ info = ZeroInfo(NumKeys + 1)
  /\ y = ZeroBuffer(D * NumKeys)
  /\ d = ZeroBuffer(D * NumKeys)
  /\ hessDone = <<>>
  /\ mhaDone = [i \in 1..NumFactors |-> NotMultiplied]
  /\ diagDone = {}
  /\ last = NoCall
  /\ offDiag = {}
  /\ FactorIdle
  /\ CartesianIdle

InSeq(i, s) == \E n \in 1..Len(s) : s[n] = i

\* graph[i].updateHessian(infoKeys, &info)
UpdateHessian(i) ==
  /\ ~InSeq(i, hessDone)
  /\ LET r == updateHessian(graph[i], infoKeys, info)
     IN /\ info' = r.info
        /\ offDiag' = r.offDiag
        /\ last' = [op |-> "updateHessian", f |-> graph[i], err |-> r.err]
  /\ hessDone' = Append(hessDone, i)
  /\ UNCHANGED <<graph, infoKeys, x, y, d, mhaDone, diagDone, factorVars, cartesianVars>>

\* graph[i].multiplyHessianAdd(alpha, x, y)
MultiplyHessianAdd(i, alpha) ==
  /\ mhaDone[i] = NotMultiplied
  /\ LET r == multiplyHessianAdd(graph[i], alpha, x, y)
     IN /\ y' = r.y
        /\ last' = [op |-> "multiplyHessianAdd", f |-> graph[i], err |-> r.err]
  /\ mhaDone' = [mhaDone EXCEPT ![i] = [alpha |-> alpha, overload |-> "raw"]]
  /\ UNCHANGED <<graph, infoKeys, x, info, d, hessDone, diagDone, offDiag,
                 factorVars, cartesianVars>>

\* graph[i].multiplyHessianAdd(alpha, x, y, keys) with the regular offset table
MultiplyHessianAddKeys(i, alpha) ==
  /\ mhaDone[i] = NotMultiplied
  /\ LET r == multiplyHessianAddKeys(graph[i], alpha, x, y, RegularOffsets)
     IN /\ y' = r.y
        /\ last' = [op |-> "multiplyHessianAddKeys", f |-> graph[i], err |-> r.err]
  /\ mhaDone' = [mhaDone EXCEPT ![i] = [alpha |-> alpha, overload |-> "keys"]]
  /\ UNCHANGED <<graph, infoKeys, x, info, d, hessDone, diagDone, offDiag,
                 factorVars, cartesianVars>>

Next ==
  \/ \E i \in 1..NumFactors : UpdateHessian(i)
  \/ \E i \in 1..NumFactors : \E alpha \in Alphas : MultiplyHessianAdd(i, alpha)
  \/ \E i \in 1..NumFactors : MultiplyHessianAddKeys(i, 1)

Spec == Init /\ [][Next]_vars

\* ------------------------------------------------------------------------
\* Update calls: any factor fed to one accumulator, one call after the other
\* ------------------------------------------------------------------------

InitUpdate ==
  /\ HessianIdle
  /\ FactorIdle
  /\ CartesianIdle

\* f.updateHessian(infoKeys, &info), for any linear factor f
UpdateHessianCall(f) ==
  /\ Len(hessDone) < NumFactors
  /\ LET r == updateHessian(f, infoKeys, info)
     IN /\ info' = r.info
        /\ offDiag' = r.offDiag
        /\ last' = [op |-> "updateHessian", f |-> f, err |-> r.err]
  /\ hessDone' = Append(hessDone, Len(hessDone) + 1)
  /\ UNCHANGED <<graph, infoKeys, x, y, d, mhaDone, diagDone, factorVars, cartesianVars>>

NextUpdate == \E f \in LinearFactors : UpdateHessianCall(f)

SpecUpdate == InitUpdate /\ [][NextUpdate]_vars

\* ------------------------------------------------------------------------
\* Diagonal round: hessianDiagonal(d) over the graph, on one buffer
\* ------------------------------------------------------------------------

InitDiagonal ==
  /\ graph \in [1..NumFactors -> LinearFactors]
  /\ infoKeys = IdentitySlots
  /\ x = ZeroBuffer(D * NumKeys)
  /\ info = ZeroInfo(NumKeys + 1)
  /\ y = ZeroBuffer(D * NumKeys)
  /\ d = ZeroBuffer(D * NumKeys)
  /\ hessDone = <<>>
  /\ mhaDone = [i \in 1..NumFactors |-> NotMultiplied]
  /\ diagDone = {}
  /\ last = NoCall
  /\ offDiag = {}
  /\ FactorIdle
  /\ CartesianIdle

\* graph[i].hessianDiagonal(d)
HessianDiagonal(i) ==
  /\ i \notin diagDone
  /\ d' = hessianDiagonal(graph[i], d)
  /\ diagDone' = diagDone \cup {i}
  /\ last' = [op |-> "hessianDiagonal", f |-> graph[i], err |-> "none"]
  /\ UNCHANGED <<graph, infoKeys, x, info, y, hessDone, mhaDone, offDiag,
                 factorVars, cartesianVars>>

NextDiagonal == \E i \in 1..NumFactors : HessianDiagonal(i)

SpecDiagonal == InitDiagonal /\ [][NextDiagonal]_vars

\* ------------------------------------------------------------------------
\* Properties of the accumulation and diagonal rounds
\* ------------------------------------------------------------------------

\* the factor carries no model or the unit model
IsPlain(f) == ~HasModel(f.model) \/ isUnit(f.model)

\* the block (P, Q) of the accumulator as the symmetric storage presents it
BlockView(P, Q) == IF P = Q THEN SelfAdjointView(info[P][P]) ELSE info[P][Q]

\* what one factor adds to block (P, Q): A_i' A_j at (s_i, s_j), A_i' b at
\* (s_i, s_B), b' b at (s_B, s_B)
Contribution(f, P, Q) ==
  LET n == NumKeys + 1
      s1 == Slot(infoKeys, f.keys[1])
      s2 == Slot(infoKeys, f.keys[2])
      sB == n - 1
  IN IF P = s1 /\ Q = s1 THEN MatMul(Transpose(f.A[1]), f.A[1])
     ELSE IF P = s1 /\ Q = s2 THEN MatMul(Transpose(f.A[1]), f.A[2])
     ELSE IF P = s2 /\ Q = s2 THEN MatMul(Transpose(f.A[2]), f.A[2])
     ELSE IF P = s1 /\ Q = sB THEN MatMul(Transpose(f.A[1]), f.b)
     ELSE IF P = s2 /\ Q = sB THEN MatMul(Transpose(f.A[2]), f.b)
     ELSE IF P = sB /\ Q = sB THEN MatMul(Transpose(f.b), f.b)
     ELSE Zeros(BlockDim(P, n), BlockDim(Q, n))

RECURSIVE SumOfContributions(_, _, _)
SumOfContributions(n, P, Q) ==
  IF n = 0 THEN Zeros(BlockDim(P, NumKeys + 1), BlockDim(Q, NumKeys + 1))
  ELSE MatAdd(SumOfContributions(n - 1, P, Q), Contribution(graph[hessDone[n]], P, Q))

\* C1: from a zero accumulator, after updateHessian has been applied for unit or
\* no-model factors in any order, every block equals the sum of the factors'
\* contributions, the bias block (s_B, s_B) holding the sum of b' b.
C1_AccumulatorIsSumOfContributions ==
  (\A n \in 1..Len(hessDone) : IsPlain(graph[hessDone[n]]))
    => \A P, Q \in 0..NumKeys :
         BlockView(P, Q) = SumOfContributions(Len(hessDone), P, Q)

\* C2: updateHessian or multiplyHessianAdd with a factor whose linearization hit
\* the cheirality condition leaves every block of the accumulator and the
\* output vector y unchanged.
C2_DegenerateFactorIsNeutral ==
  [][ (/\ last'.op \in {"updateHessian", "multiplyHessianAdd", "multiplyHessianAddKeys"}
       /\ last'.f \in DegenerateFactors)
      => (info' = info /\ y' = y) ]_vars

\* the block (P, Q) of the assembled information matrix, from the upper triangle
AssembledBlock(P, Q) ==
  IF P = Q THEN SelfAdjointView(info[P][P])
  ELSE IF P < Q THEN info[P][Q]
  ELSE Transpose(info[Q][P])

\* rows of variable slot P of (assembled information matrix) * x
RECURSIVE InfoTimesX(_, _)
InfoTimesX(P, n) ==
  IF n = 0 THEN Zeros(D, 1)
  ELSE MatAdd(InfoTimesX(P, n - 1),
              MatMul(AssembledBlock(P, n - 1), ConstDMap(x, D * (n - 1))))

\* C3: with slot = key and factors carrying no, a unit or a diagonal model, when
\* updateHessian and the raw multiplyHessianAdd(1, x, y) have been applied for every
\* factor, the variable rows of (assembled information matrix) * x equal y.
C3_MatrixFreeEquivalence ==
  (/\ infoKeys = IdentitySlots
   /\ \A i \in 1..NumFactors :
        /\ ~isConstrained(graph[i].model)
        /\ InSeq(i, hessDone)
        /\ mhaDone[i] = [alpha |-> 1, overload |-> "raw"])
    => \A P \in Keys : InfoTimesX(P, NumKeys) = ConstDMap(y, D * P)

\* C4: updateHessian on a factor with a constrained noise model reports
\* invalid_argument and leaves every block of the accumulator as it was.
C4_ConstrainedUpdateRejected ==
  [][ (last'.op = "updateHessian" /\ isConstrained(last'.f.model))
      => (last'.err = "invalid_argument" /\ info' = info) ]_vars

\* C4 witness: a constrained factor was rejected on an accumulator that already
\* holds another factor's contributions
C4_Witness ==
  /\ last.op = "updateHessian"
  /\ isConstrained(last.f.model)
  /\ last.err = "invalid_argument"
  /\ Len(hessDone) >= 2
  /\ info # ZeroInfo(NumKeys + 1)

\* C8: multiplyHessianAdd (either overload) on a factor with a constrained noise
\* model rejects the call and leaves y unchanged.
C8_ConstrainedProductRejected ==
  [][ (/\ last'.op \in {"multiplyHessianAdd", "multiplyHessianAddKeys"}
       /\ isConstrained(last'.f.model))
      => (last'.err # "none" /\ y' = y) ]_vars

\* C10: every off-diagonal block updateHessian writes is addressed with a row
\* slot strictly lower than its column slot, the bias slot being the last block.
C10_OffDiagonalCanonical ==
  last.op = "updateHessian"
    => \A rc \in offDiag : rc[1] < rc[2] /\ rc[2] <= nBlocks(info) - 1

\* the squared column norms the factors touching variable v contribute, summed
\* over the factors hessianDiagonal has been called on
RECURSIVE DiagonalOf(_, _, _)
DiagonalOf(v, k, n) ==
  IF n = 0 THEN 0
  ELSE DiagonalOf(v, k, n - 1)
       + (IF n \in diagDone
          THEN SumTo([pos \in 1..Len(graph[n].keys) |->
                        IF graph[n].keys[pos] = v
                        THEN ColSquaredNorm(graph[n].A[pos], k) ELSE 0],
                     Len(graph[n].keys))
          ELSE 0)

\* C7: after hessianDiagonal(d) on a zero buffer, the D entries at offset
\* D * key(v) hold the sum over the factors touching v of the squared column
\* norms of their blocks for v, and no entry is negative.
C7_DiagonalAtKeyOffset ==
  \A v \in Keys : \A k \in 1..D :
    /\ d[D * v + k - 1] = DiagonalOf(v, k, NumFactors)
    /\ d[D * v + k - 1] >= 0

\* ------------------------------------------------------------------------
\* Measurement factor calls: evaluateError and linearize at any values
\* ------------------------------------------------------------------------

\* what Camera(pose3, calib).project does for the ternary factor
Projections3 ==
  { [cheirality |-> TRUE, z |-> Zero2, H1 |-> Zeros(ResidualDim, DimPose),
     H2 |-> Zeros(ResidualDim, DimPoint), H3 |-> Zeros(ResidualDim, DimK)] }
  \cup { [cheirality |-> FALSE, z |-> z,
          H1 |-> <<<<1, 0, 0, 0, 2, 0>>, <<0, 1, 0, 3, 0, 0>>>>,
          H2 |-> <<<<1, 0, 2>>, <<0, 1, 1>>>>,
          H3 |-> <<<<1, 1, 0>>, <<0, 2, 1>>>>] : z \in { <<<<1>>, <<-1>>>>, <<<<2>>, <<3>>>> } }

\* the ternary factors: pose and landmark keys, and the calibration key
MeasurementFactors2 ==
  { [key1 |-> kk[1], key2 |-> kk[2], key3 |-> NumKeys, measured |-> m, noiseModel |-> nm] :
      kk \in KeyPairs, m \in { <<<<0>>, <<0>>>>, <<<<1>>, <<1>>>> }, nm \in Models }

InitFactor ==
  /\ HessianIdle
  /\ FactorIdle
  /\ CartesianIdle

\* factor.evaluateError(camera, point, H1, H2)
EvaluateError(mf, p, wantH1, wantH2) ==
  /\ out' = [op |-> "evaluateError", mf |-> mf, p |-> p, active |-> TRUE,
             want |-> <<wantH1, wantH2>>,
             r |-> evaluateError(mf, p, wantH1, wantH2)]
  /\ UNCHANGED <<hessianVars, cartesianVars>>

\* factor2.evaluateError(pose3, point, calib, H1, H2, H3)
EvaluateError2(mf, p, wantH1, wantH2, wantH3) ==
  /\ out' = [op |-> "evaluateError2", mf |-> mf, p |-> p, active |-> TRUE,
             want |-> <<wantH1, wantH2, wantH3>>,
             r |-> evaluateError2(mf, p, wantH1, wantH2, wantH3)]
  /\ UNCHANGED <<hessianVars, cartesianVars>>

\* factor.linearize(values)
Linearize(mf, p, active) ==
  /\ out' = [op |-> "linearize", mf |-> mf, p |-> p, active |-> active,
             want |-> <<TRUE, TRUE>>,
             r |-> linearize(mf, p, active)]
  /\ UNCHANGED <<hessianVars, cartesianVars>>

NextFactor ==
  \/ \E mf \in MeasurementFactors, p \in Projections, w1, w2 \in BOOLEAN :
       EvaluateError(mf, p, w1, w2)
  \/ \E mf \in MeasurementFactors2, p \in Projections3, w1, w2, w3 \in BOOLEAN :
       EvaluateError2(mf, p, w1, w2, w3)
  \/ \E mf \in MeasurementFactors, p \in Projections, active \in BOOLEAN :
       Linearize(mf, p, active)

SpecFactor == InitFactor /\ [][NextFactor]_vars

\* every Jacobian of the call that was requested is all zero
JacobiansZero ==
  IF out.op = "linearize"
  THEN \A pos \in 1..2 : out.r.factor.A[pos] = Zeros(ResidualDim, D)
  ELSE /\ out.want[1] => out.r.H1 = Zeros(ResidualDim, Cols(out.p.H1))
       /\ out.want[2] => out.r.H2 = Zeros(ResidualDim, Cols(out.p.H2))
       /\ (out.op = "evaluateError2" /\ out.want[3])
            => out.r.H3 = Zeros(ResidualDim, Cols(out.p.H3))

\* the residual the call returned
Residual == IF out.op = "linearize" THEN out.r.factor.b ELSE out.r.error

\* C5: when the projection raises the cheirality condition, evaluateError of both
\* factors and linearize return normally with a zero residual of length 2 and
\* all-zero Jacobian blocks, and surface a diagnostic.
C5_CheiralitySoftDrop ==
  (out.op # "none" /\ out.active /\ out.p.cheirality)
    => /\ ~out.r.threw
       /\ Residual = Zeros(2, 1)
       /\ JacobiansZero
       /\ out.r.diagnostic

\* C6: for an active factor, linearize returns b = -error and the Jacobian
\* blocks, each row scaled by the noise model's whitening when the model is not
\* unit; the returned factor carries a model iff the factor's model is
\* constrained, and then the unit variant of that model.
C6_LinearizeWhitensAndCarriesUnit ==
  (out.op = "linearize" /\ out.active)
    => LET nm == out.mf.noiseModel
           f == out.r.factor
           e == [i \in 1..ResidualDim |->
                   IF out.p.cheirality THEN 0 ELSE out.p.z[i][1] - out.mf.measured[i][1]]
           w == [i \in 1..ResidualDim |->
                   IF nm.kind \in {"none", "unit"} THEN 1
                   ELSE IF i \in nm.hard THEN 1 ELSE nm.invsigmas[i]]
       IN /\ f.keys = <<out.mf.key1, out.mf.key2>>
          /\ \A i \in 1..ResidualDim : f.b[i][1] = w[i] * (0 - e[i])
          /\ \A i \in 1..ResidualDim : \A c \in 1..D :
               /\ f.A[1][i][c] = w[i] * out.p.H1[i][c]
               /\ f.A[2][i][c] = w[i] * out.p.H2[i][c]
          /\ (f.model.kind # "none") <=> (nm.kind = "constrained")
          /\ nm.kind = "constrained"
               => f.model = [kind |-> "constrained", invsigmas |-> <<1, 1>>,
                             hard |-> nm.hard]

\* C6 witness: an active factor with a constrained model was linearized away
\* from the cheirality condition; the residual was scaled and the factor
\* carries the unit variant
C6_Witness ==
  /\ out.op = "linearize"
  /\ out.active
  /\ ~out.p.cheirality
  /\ out.mf.noiseModel.kind = "constrained"
  /\ out.r.factor.model.invsigmas = <<1, 1>>
  /\ out.r.factor.b[1][1] = 2 * (out.mf.measured[1][1] - out.p.z[1][1])
  /\ out.r.factor.b[1][1] # 0

\* ------------------------------------------------------------------------
\* Assignment<L>::CartesianProduct(keys), statement by statement
\* ------------------------------------------------------------------------

\* longest key list explored
MaxKeys == 2

\* largest cardinality explored
MaxCard == 2

Labels == 1..MaxKeys

\* std::pair<L, size_t>
DiscreteKeys == { [first |-> l, second |-> c] : l \in Labels, c \in 0..MaxCard }

KeyLists == UNION { [1..n -> DiscreteKeys] : n \in 0..MaxKeys }

\* entries the result vector may hold before the exploration stops
MaxOut == (MaxCard ^ MaxKeys) + 1

InitCartesian ==
  /\ HessianIdle
  /\ FactorIdle
  /\ cpKeys \in KeyLists
  /\ values = <<>>
  /\ allPossValues = <<>>
  /\ j = 0
  /\ pc = "init"

\* Derived values; for (key : keys) values[key.first] = 0;
InitializeValues ==
  /\ pc = "init"
  /\ values' = [l \in {cpKeys[n].first : n \in 1..Len(cpKeys)} |-> 0]
  /\ pc' = "push"
  /\ UNCHANGED <<cpKeys, allPossValues, j, hessianVars, factorVars>>

\* allPossValues.push_back(values); j = 0;
PushBack ==
  /\ pc = "push"
  /\ Len(allPossValues) < MaxOut
  /\ allPossValues' = Append(allPossValues, values)
  /\ j' = 0
  /\ pc' = "for"
  /\ UNCHANGED <<cpKeys, values, hessianVars, factorVars>>

\* the pass with the wrap test off by one: values[idx] <= keys[j].second
Increment_wrapsLate ==
  /\ pc = "for"
  /\ j < Len(cpKeys)
  /\ LET idx == cpKeys[j + 1].first
         incremented == values[idx] + 1
     IN IF incremented <= cpKeys[j + 1].second
        THEN /\ values' = [values EXCEPT ![idx] = incremented]
             /\ j' = j
             /\ pc' = "after"
        ELSE /\ values' = [values EXCEPT ![idx] = 0]
             /\ j' = j + 1
             /\ pc' = "for"
  /\ UNCHANGED <<cpKeys, allPossValues, hessianVars, factorVars>>

\* one pass of for (j < keys.size()): values[idx]++, then break or wrap
Increment ==
  /\ pc = "for"
  /\ j < Len(cpKeys)
  /\ LET idx == cpKeys[j + 1].first
         incremented == values[idx] + 1
     IN IF incremented < cpKeys[j + 1].second
        THEN /\ values' = [values EXCEPT ![idx] = incremented]
             /\ j' = j
             /\ pc' = "after"
        ELSE /\ values' = [values EXCEPT ![idx] = 0]
             /\ j' = j + 1
             /\ pc' = "for"
  /\ UNCHANGED <<cpKeys, allPossValues, hessianVars, factorVars>>

\* the for loop ends with j = keys.size()
LoopEnd ==
  /\ pc = "for"
  /\ j = Len(cpKeys)
  /\ pc' = "after"
  /\ UNCHANGED <<cpKeys, values, allPossValues, j, hessianVars, factorVars>>

\* if (j == keys.size()) break; ... return allPossValues;
BreakOrRepeat ==
  /\ pc = "after"
  /\ pc' = IF j = Len(cpKeys) THEN "done" ELSE "push"
  /\ UNCHANGED <<cpKeys, values, allPossValues, j, hessianVars, factorVars>>

NextCartesian ==
  \/ InitializeValues
  \/ PushBack
  \/ Increment
  \/ LoopEnd
  \/ BreakOrRepeat

SpecCartesian == InitCartesian /\ [][NextCartesian]_vars

\* the labels of the list are pairwise distinct
DistinctLabels ==
  \A a, c \in 1..Len(cpKeys) : a # c => cpKeys[a].first # cpKeys[c].first

\* the number of values of key n the enumeration runs through
Range(n) == IF cpKeys[n].second = 0 THEN 1 ELSE cpKeys[n].second

RECURSIVE ProductOfCards(_)
ProductOfCards(n) == IF n = 0 THEN 1 ELSE cpKeys[n].second * ProductOfCards(n - 1)

RECURSIVE ProductOfRanges(_)
ProductOfRanges(n) == IF n = 0 THEN 1 ELSE Range(n) * ProductOfRanges(n - 1)

LabelSet == {cpKeys[n].first : n \in 1..Len(cpKeys)}

\* the assignments over the labels with values below the cardinalities
ProductSet == { a \in [LabelSet -> 0..MaxCard] :
                  \A n \in 1..Len(cpKeys) : a[cpKeys[n].first] < cpKeys[n].second }

\* the assignments with a cardinality of 0 counted as 1
ProductSetOfRanges == { a \in [LabelSet -> 0..MaxCard] :
                          \A n \in 1..Len(cpKeys) : a[cpKeys[n].first] < Range(n) }

NoAssignmentTwice ==
  \A a, c \in 1..Len(allPossValues) : a # c => allPossValues[a] # allPossValues[c]

PushBackBeyondBound ==
  /\ pc = "push"
  /\ Len(allPossValues) = MaxOut
  /\ allPossValues' = allPossValues
  /\ j' = 0
  /\ pc' = "for"
  /\ UNCHANGED <<cpKeys, values, hessianVars, factorVars>>

NextTermination ==
  \/ InitializeValues
  \/ PushBack
  \/ PushBackBeyondBound
  \/ Increment
  \/ LoopEnd
  \/ BreakOrRepeat

\* the function runs in one thread that always takes its next statement
SpecTermination ==
  InitCartesian /\ [][NextTermination]_vars /\ WF_vars(NextTermination)

\* C11: CartesianProduct terminates for every finite list of (label,
\* cardinality) pairs - the empty list, cardinalities of 0 or 1 and lists with
\* the same label more than once included: the odometer loop eventually has
\* every position wrapped and the function returns.
C11_CartesianProductTerminates == <>(pc = "done")

====
